---------------------------- MODULE Spec2Model ----------------------------
(***************************************************************************)
(* Model of the flat-sale-announcements scraper:                           *)
(*   - Scraper (scrapeOffers, scrapeSiteOffers, getSiteOffers, getPage,    *)
(*     loadPage, saveSiteOffers), the orchestration engine;                *)
(*   - the Olx site scraper (parseOlxPageAds, parseOlxAdTime, ...,         *)
(*     getOlxUrlsToNextPages), the record extractor and date normalizer.   *)
(*                                                                         *)
(* Text is a sequence of one-character strings, time is in seconds.        *)
(***************************************************************************)
EXTENDS Integers, Sequences, FiniteSets, TLC

(***************************************************************************)
(* Bounds of the model.                                                    *)
(***************************************************************************)
\* longest site list handed to scrapeOffers
MaxSites == 3
\* most pagination-link elements the pager of a first page holds
MaxPagerLinks == 4
\* most ads on a page handed to parseOlxPageAds on its own
MaxAds == 3
\* config.scrapeSiteTimeout, in seconds
ScrapeSiteTimeout == 3
\* retries are counted exactly up to this number by a lone getPage
MaxRetries == 24
\* retries are counted exactly up to this number inside a whole run
RunRetries == 2
\* the calls of getOlxAnnouncements in one process
MaxOlxCalls == 2
\* the timestamps tried lie up to this many seconds off a cut-off
StaleWindow == 2

(***************************************************************************)
(* Program constants.                                                      *)
(***************************************************************************)
\* parseInt / unary plus yield NaN; every number of the model is >= 0
NaN == -1
\* the ceiling of the retry delay, in seconds
RetryDelayCap == 15
\* DAY_MS, in seconds
DAY == 86400
\* the padding for the program execution (1000 * 30 ms), in seconds
Padding == 30
\* the month number of December
December == 11

Min(a, b) == IF a < b THEN a ELSE b

(***************************************************************************)
(* Text.                                                                   *)
(***************************************************************************)
Digits == <<"0", "1", "2", "3", "4", "5", "6", "7", "8", "9">>

IsDigit(ch) == \E i \in 1..10 : Digits[i] = ch

DigitValue(ch) == (CHOOSE i \in 1..10 : Digits[i] = ch) - 1

\* the one element of a singleton set.  The({e(v) : v \in {x}}) is e with v
\* bound to the value of x, which is then computed once: a `const v = x`
The(S) == CHOOSE x \in S : TRUE

\* String.prototype.split(sep) for a one-character separator: the pieces
\* between consecutive separators, the start and the end of the text
Split(s, sep) ==
    LET cuts == {i \in 1..Len(s) : s[i] = sep} \cup {0, Len(s) + 1}
        Cut(k) == CHOOSE p \in cuts : Cardinality({q \in cuts : q < p}) = k
    IN  [k \in 1..(Cardinality(cuts) - 1) |-> SubSeq(s, Cut(k - 1) + 1, Cut(k) - 1)]

\* .filter((x) => x !== '')
FilterNonEmpty(arr) == SelectSeq(arr, LAMBDA x : x # <<>>)

\* String.prototype.substr(0, n)
Substr0(s, n) == SubSeq(s, 1, Min(n, Len(s)))

\* RegExp /(a|b)/.test(s) for literal alternatives: a substring search
Contains(s, w) ==
    \E i \in 1..(Len(s) - Len(w) + 1) : SubSeq(s, i, i + Len(w) - 1) = w

\* the length of the longest prefix of digits
DigitPrefixLen(s) ==
    CHOOSE k \in 0..Len(s) :
        /\ \A i \in 1..k : IsDigit(s[i])
        /\ k = Len(s) \/ ~IsDigit(s[k + 1])

\* the number the first k characters, all digits, write
RECURSIVE DecimalValue(_, _)
DecimalValue(s, k) ==
    IF k = 0 THEN 0 ELSE 10 * DecimalValue(s, k - 1) + DigitValue(s[k])

\* parseInt(s, 10) over the alphabet of the model (no sign, no white space)
ParseInt(s) ==
    IF DigitPrefixLen(s) = 0 THEN NaN ELSE DecimalValue(s, DigitPrefixLen(s))

\* unary plus, +s: the whole text must be a number; +'' is 0
ToNumber(s) ==
    IF DigitPrefixLen(s) = Len(s) THEN DecimalValue(s, Len(s)) ELSE NaN

(***************************************************************************)
(* Dates: new Date(year, month, day, hour, minute).getTime() in seconds    *)
(* since the start of 1970, in UTC; month is 0-based; day, hour and minute *)
(* overflow into the next unit as in JavaScript.                           *)
(***************************************************************************)
IsLeap(y) == (y % 4 = 0 /\ y % 100 # 0) \/ y % 400 = 0

DaysInYear(y) == IF IsLeap(y) THEN 366 ELSE 365

DaysInMonth(y, m) ==
    IF m = 1 THEN (IF IsLeap(y) THEN 29 ELSE 28)
    ELSE IF m \in {3, 5, 8, 10} THEN 30
    ELSE 31

\* the days from the start of 1970 to the start of year y >= 1970: 365 a
\* year and one more for every leap year passed
DaysBeforeYear(y) ==
    365 * (y - 1970) + ((y - 1969) \div 4) - ((y - 1901) \div 100) + ((y - 1601) \div 400)

RECURSIVE DaysBeforeMonth(_, _)
DaysBeforeMonth(y, m) ==
    IF m <= 0 THEN 0 ELSE DaysBeforeMonth(y, m - 1) + DaysInMonth(y, m - 1)

MakeDate(year, month, day, hour, minute) ==
    (((DaysBeforeYear(year) + DaysBeforeMonth(year, month) + day - 1) * 24
        + hour) * 60 + minute) * 60

\* Date.now() of a clock reading [year, month, date, hour, minute, second]
NowTs(clock) ==
    MakeDate(clock.year, clock.month, clock.date, clock.hour, clock.minute)
        + clock.second

(***************************************************************************)
(* The date normalizer of the Olx scraper.  A result is a Date (tag        *)
(* "date", ts), a string (tag "string", str) or a thrown error (tag        *)
(* "throw", str the error's name).                                         *)
(***************************************************************************)
DateR(ts) == [tag |-> "date", ts |-> ts, str |-> <<>>]

StringR(s) == [tag |-> "string", ts |-> NaN, str |-> s]

ThrowR(e) == [tag |-> "throw", ts |-> NaN, str |-> <<e>>]

\* arr[i] of a JavaScript array read past its end
Undefined == <<"<undefined>">>

\* arr[i - 1] of the source: indices of the model start at 1
At(arr, i) == IF i <= Len(arr) THEN arr[i] ELSE Undefined

dzisiaj == <<"d", "z", "i", "s", "i", "a", "j">>

wczoraj == <<"w", "c", "z", "o", "r", "a", "j">>

\* the cases of the switch, in the order of the month numbers they return;
\* 'paz' (written without the diacritic) returns 9 as well
MonthPrefixes ==
    << <<"s", "t", "y">>, <<"l", "u", "t">>, <<"m", "a", "r">>,
       <<"k", "w", "i">>, <<"m", "a", "j">>, <<"c", "z", "e">>,
       <<"l", "i", "p">>, <<"s", "i", "e">>, <<"w", "r", "z">>,
       <<"p", "a", "z'">>, <<"l", "i", "s">>, <<"g", "r", "u">> >>

paz == <<"p", "a", "z">>

\* the default case: throw new Error('Unrecognized month prefix')
MonthUnrecognized(monthPrefix) ==
    monthPrefix # paz /\ \A m \in 1..12 : MonthPrefixes[m] # monthPrefix

mapMonthPrefixToMonth(monthPrefix) ==
    IF monthPrefix = paz THEN 9
    ELSE (CHOOSE m \in 1..12 : MonthPrefixes[m] = monthPrefix) - 1

\* the year goes back whatever the month
AdYearAnyMonth(monthNum, dayNum, clock) ==
    IF clock.date < dayNum THEN clock.year - 1 ELSE clock.year

\* let year = currentDate.getFullYear(), one less for a day of December
\* after today's day of the month
AdYear(monthNum, dayNum, clock) ==
    IF monthNum = December /\ clock.date < dayNum THEN clock.year - 1 ELSE clock.year

parseOlxAdDateWithMontPrefix(monthPrefix, day, clock) ==
    IF monthPrefix = Undefined THEN ThrowR("TypeError")
    ELSE The({
      IF dayNum = NaN \/ ToNumber(day) # dayNum
      THEN StringR(day \o <<" ">> \o mp)
      ELSE IF MonthUnrecognized(mp) THEN ThrowR("Error")
      ELSE
        LET monthNum == mapMonthPrefixToMonth(mp)
        IN  DateR(MakeDate(AdYear(monthNum, dayNum, clock), monthNum, dayNum, 0, 0))
      : mp \in {Substr0(monthPrefix, 3)}, dayNum \in {ParseInt(day)} })

parseOlxAdTimeWithTodayYesterday(daySynonym, time, clock) ==
    IF time = Undefined THEN ThrowR("TypeError")
    ELSE The({
      The({
        IF \/ hour = NaN
           \/ minutes = NaN
           \/ hour # ToNumber(At(timeArr, 1))
           \/ minutes # ToNumber(At(timeArr, 2))
        THEN StringR(daySynonym \o <<" ">> \o time)
        ELSE DateR(MakeDate(clock.year, clock.month,
                            clock.date + (IF daySynonym = wczoraj THEN -1 ELSE 0),
                            hour, minutes))
        : hour \in {ParseInt(At(timeArr, 1))}, minutes \in {ParseInt(At(timeArr, 2))} })
      : timeArr \in {Split(time, ":")} })

\* the dispatch of parseOlxAdTime on the tokens of the text
ParseTokens(olxTime, olxTimeArr, clock) ==
    IF Len(olxTimeArr) > 2 THEN StringR(olxTime)
    ELSE IF At(olxTimeArr, 1) = dzisiaj \/ At(olxTimeArr, 1) = wczoraj
    THEN parseOlxAdTimeWithTodayYesterday(At(olxTimeArr, 1), At(olxTimeArr, 2), clock)
    ELSE parseOlxAdDateWithMontPrefix(At(olxTimeArr, 2), At(olxTimeArr, 1), clock)

parseOlxAdTime(olxTime, clock) ==
    The({ParseTokens(olxTime, olxTimeArr, clock)
           : olxTimeArr \in {FilterNonEmpty(Split(olxTime, " "))}})

(***************************************************************************)
(* The record extractor of the Olx scraper.  An ad of a page is its date   *)
(* text; an announcement keeps the formatted date and the debug stamp.     *)
(***************************************************************************)
\* /(dzisiaj|wczoraj)/.test(dt)
IsTodayOrYesterday(dt) == Contains(dt, dzisiaj) \/ Contains(dt, wczoraj)

\* the cut-off test with >= in the place of >
IsStaleInclusive(ts, isTodayOrYesterday, nowTs) ==
    nowTs - (DAY + Padding) >= ts - (IF isTodayOrYesterday THEN 0 ELSE DAY)

\* the cut-off test of parseOlxPageAds
IsStale(ts, isTodayOrYesterday, nowTs) ==
    LET currentDate == nowTs - (DAY + Padding)
    IN  currentDate > ts - (IF isTodayOrYesterday THEN 0 ELSE DAY)

\* parsedDate.toLocaleString(...) with the date-time or the date format, or
\* the string the normalizer gave back
AdDate(parsedDate, dt) ==
    IF parsedDate.tag = "date"
    THEN [kind |-> IF IsTodayOrYesterday(dt) THEN "dateTime" ELSE "date",
          ts |-> parsedDate.ts, text |-> <<>>]
    ELSE [kind |-> "raw", ts |-> NaN, text |-> parsedDate.str]

\* one pass of the for loop of parseOlxPageAds on the ad of index i - 1,
\* whose date text is dt and whose date parsed to parsedDate: "throw" when
\* the parse threw, "done" for return [announcements, true], else the
\* announcement to push
AdStep(dt, parsedDate, dbg, i, clock) ==
    IF parsedDate.tag = "throw" THEN [op |-> "throw"]
    ELSE IF /\ parsedDate.tag = "date"
            /\ IsStale(parsedDate.ts, IsTodayOrYesterday(dt), NowTs(clock))
    THEN [op |-> "done"]
    ELSE [op |-> "push",
          ad |-> [dt |-> AdDate(parsedDate, dt),
                  _debugInfo |-> [url |-> dbg.url, idx |-> i - 1]]]

\* the loop with `continue` in the place of `return [announcements, true]`:
\* a stale ad is left out and the ads after it are still read
RECURSIVE ParseAdsSkipStale(_, _, _, _, _)
ParseAdsSkipStale(ads, i, announcements, dbg, clock) ==
    IF i > Len(ads)
    THEN [threw |-> FALSE, ads |-> announcements, isDone |-> FALSE, dbg |-> dbg]
    ELSE The({
      IF step.op = "throw"
      THEN [threw |-> TRUE, ads |-> <<>>, isDone |-> FALSE, dbg |-> dbg]
      ELSE IF step.op = "done"
      THEN ParseAdsSkipStale(ads, i + 1, announcements, dbg, clock)
      ELSE ParseAdsSkipStale(ads, i + 1, Append(announcements, step.ad),
                             [dbg EXCEPT !.idx = i - 1], clock)
      : step \in {AdStep(ads[i], parseOlxAdTime(ads[i], clock), dbg, i, clock)} })

\* the for loop of parseOlxPageAds from index i - 1 on
RECURSIVE ParseAdsFrom(_, _, _, _, _)
ParseAdsFrom(ads, i, announcements, dbg, clock) ==
    IF i > Len(ads)
    THEN [threw |-> FALSE, ads |-> announcements, isDone |-> FALSE, dbg |-> dbg]
    ELSE The({
      IF step.op = "throw"
      THEN [threw |-> TRUE, ads |-> <<>>, isDone |-> FALSE, dbg |-> dbg]
      ELSE IF step.op = "done"
      THEN [threw |-> FALSE, ads |-> announcements, isDone |-> TRUE, dbg |-> dbg]
      ELSE ParseAdsFrom(ads, i + 1, Append(announcements, step.ad),
                        [dbg EXCEPT !.idx = i - 1], clock)
      : step \in {AdStep(ads[i], parseOlxAdTime(ads[i], clock), dbg, i, clock)} })

parseOlxPageAds(ads, dbg, clock) == ParseAdsFrom(ads, 1, <<>>, dbg, clock)

(***************************************************************************)
(* The pagination engine of the Olx scraper: the URLs base + '&page=' + i  *)
(* for i = 2 .. pagesCount - 1.  A URL is [site, page]; page 1 is the      *)
(* start URL, which carries no page parameter.                             *)
(***************************************************************************)
StartUrl(site) == [site |-> site, page |-> 1]

RECURSIVE UrlsFrom(_, _, _, _)
UrlsFrom(site, i, pagesCount, pagesUrls) ==
    IF i < pagesCount
    THEN UrlsFrom(site, i + 1, pagesCount, Append(pagesUrls, [site |-> site, page |-> i]))
    ELSE pagesUrls

\* the loop with i <= pagesCount in the place of i < pagesCount
getOlxUrlsUpToCount(site, pagesCount) == UrlsFrom(site, 2, pagesCount + 1, <<>>)

getOlxUrlsToNextPages(site, pagesCount) == UrlsFrom(site, 2, pagesCount, <<>>)

(***************************************************************************)
(* Inputs of the model.                                                    *)
(***************************************************************************)
Txt_today == dzisiaj \o <<" ", "0", "9", ":", "1", "5">>

Txt_yesterdayLate == wczoraj \o <<" ", "1", "0", ":", "0", "0">>

Txt_yesterdayEarly == wczoraj \o <<" ", "0", "8", ":", "0", "0">>

Txt_tomorrow == <<"6", " ", "s", "t", "y">>

Txt_dec29 == <<"2", "9", " ", "g", "r", "u">>

Txt_threeTokens == <<"a", " ", "b", " ", "c">>

Txt_badDay == <<"a", "b", " ", "g", "r", "u">>

Txt_badTime == dzisiaj \o <<" ", "9", "x", ":", "1", "5">>

Txt_badMonth == <<"5", " ", "x", "y", "z">>

Txt_oneToken == <<"t", "e", "r", "a", "z">>

\* the date texts an ad carries
DtTexts ==
    { Txt_today, Txt_yesterdayLate, Txt_yesterdayEarly, Txt_tomorrow, Txt_dec29,
      Txt_threeTokens, Txt_badDay, Txt_badTime, Txt_badMonth, Txt_oneToken }

RECURSIVE SeqsUpTo(_, _)
SeqsUpTo(S, n) ==
    IF n = 0 THEN {<<>>}
    ELSE LET shorter == SeqsUpTo(S, n - 1)
         IN  shorter \cup {Append(q, x) : q \in shorter, x \in S}

\* the readings of the clock: around the cut-off of "wczoraj 10:00", and the
\* turn of the year
Clocks ==
    { [year |-> 2024, month |-> 0, date |-> 5, hour |-> 10, minute |-> 0, second |-> sec]
        : sec \in {29, 30, 31} }
    \cup
    { [year |-> 2024, month |-> 11, date |-> 30, hour |-> 10, minute |-> 0, second |-> 30] }

\* the clock of a whole run
RunClock == [year |-> 2024, month |-> 0, date |-> 5, hour |-> 10, minute |-> 0, second |-> 30]

\* the pages a site serves: an empty one, one fresh ad, one ad with an
\* unparsed date, a fresh ad before a stale one, a fresh ad before one with
\* an unrecognized month
EmptyPage == <<>>

FreshPage == <<Txt_today>>

RawPage == <<Txt_threeTokens>>

LastPage == <<Txt_today, Txt_yesterdayEarly>>

BadPage == <<Txt_today, Txt_badMonth>>

\* the outcomes of page.goto: status 200, a rejected navigation, no
\* response, a status other than 200
GotoOutcomes == {"ok", "navError", "noResponse", "badStatus"}

\* the environment: `horizon` is the number up to which retries are counted
\* exactly (beyond it the delay no longer changes what the model observes),
\* `gotoSecs` the times a page.goto takes, `pages` the pages the sites
\* serve, `pagerCounts` the numbers of pagination links of a first page,
\* `isDev` the value of config.isDev
RunEnv ==
    [horizon |-> RunRetries, gotoSecs |-> {0, 1},
     pages |-> {FreshPage, LastPage, BadPage}, pagerCounts |-> {0, 3},
     isDev |-> FALSE]

CrawlEnv ==
    [horizon |-> RunRetries, gotoSecs |-> {0, 1},
     pages |-> {EmptyPage, FreshPage, RawPage, LastPage, BadPage},
     pagerCounts |-> 0..MaxPagerLinks, isDev |-> TRUE]

LoaderEnv ==
    [horizon |-> MaxRetries, gotoSecs |-> {0, 1},
     pages |-> {FreshPage}, pagerCounts |-> {0}, isDev |-> FALSE]

(***************************************************************************)
(* State.                                                                  *)
(***************************************************************************)
VARIABLES
    sites,         \* the site list handed to scrapeOffers
    siteIndex,     \* scrapeOffers: siteIndex
    promises,      \* scrapeOffers: the positions of the crawls in `promises`
    orchPc,        \* scrapeOffers: "off", "start", "await", "returned", "rejected"
    crawl,         \* per position of the site list: one scrapeSiteOffers call
    clock,         \* the reading of the clock
    env,           \* what the environment of this specification ranges over
    exPc,          \* parseOlxPageAds on its own: "off", "input", "done"
    exAds,         \* parseOlxPageAds on its own: the ads of the page
    exOut,         \* parseOlxPageAds on its own: the result
    call,          \* one call of a function of the Olx scraper on its own
    olx            \* the Olx module: its _debugInfo and the getOlxAnnouncements calls

vars == <<sites, siteIndex, promises, orchPc, crawl, clock, env, exPc, exAds, exOut, call, olx>>

Crawls == 1..MaxSites

\* a scrapeSiteOffers call that has not started.  Beside the variables of
\* the source, `elapsed` is Date.now() - startTime, `exceeded` the outcome of
\* the last budget test, `openPages` the pages opened by browser.newPage and
\* not closed, and `attempts`, `getPageCalls`, `paginationCalls`, `saves`
\* count the calls of loadPage (in the current getPage), getPage,
\* getUrlsToNextPages and saveSiteOffers.  `text` is the offers in the text
\* saveSiteOffers builds, `saved` the offers in the file written,
\* `validations` counts the calls of validateOffers, `warned` is whether it
\* logged its warning, and `logged` is the number of offers of the last
\* l.info of scrapeSiteOffers (NaN before it)
IdleCrawl ==
    [pc |-> "idle", site |-> 0, offers |-> <<>>, pageUrls |-> <<>>, isDone |-> FALSE,
     scrapedPagesCount |-> 0, url |-> StartUrl(0), debugInfo |-> [url |-> StartUrl(0), idx |-> 0],
     retries |-> 0, elapsed |-> 0, exceeded |-> FALSE, timeout |-> 0,
     openPages |-> 0, attempts |-> 0, getPageCalls |-> 0, paginationCalls |-> 0,
     saved |-> <<>>, saves |-> 0,
     text |-> <<>>, validations |-> 0, warned |-> FALSE, logged |-> NaN]

Active(c) == crawl[c].pc \notin {"idle", "resolved", "rejected"}

\* Date.now() - startTime is kept exactly up to the first value beyond the budget
Elapse(e, d) == Min(e + d, ScrapeSiteTimeout + 1)

(***************************************************************************)
(* Scraper.getPage and Scraper.loadPage: the retry loop of one page.       *)
(***************************************************************************)
\* the delay without its ceiling
RetryDelayUncapped(retries) == retries

\* (retries < 15 ? retries : 15) * 1000 ms, in seconds
RetryDelay(retries) == IF retries < RetryDelayCap THEN retries ELSE RetryDelayCap

\* getPage is entered for `url`: retries = 0, startTime = Date.now(), and
\* loadPage awaits browser.newPage()
BeginGetPage(r, url) ==
    [r EXCEPT !.url = url, !.debugInfo.url = url, !.retries = 0, !.elapsed = 0,
              !.exceeded = FALSE, !.timeout = 0, !.attempts = 1,
              !.getPageCalls = @ + 1, !.pc = "newPage"]

\* the catch block of getPage: the budget test builds an Error and drops it,
\* then retries++ and the sleep is awaited
CatchLoadError(r) ==
    LET n == Min(r.retries + 1, env.horizon)
    IN  [r EXCEPT !.exceeded = (r.elapsed > ScrapeSiteTimeout),
                  !.retries = n, !.timeout = RetryDelay(n), !.pc = "sleep"]

\* the catch block of loadPage without its page.close()
ClosePageSkipped(r) == r

\* the catch block of loadPage: page.close() of the page of the failed attempt
ClosePage(r) == [r EXCEPT !.openPages = @ - 1]

\* getPage returns the loaded page: its locals are gone, and getSiteOffers
\* awaits the content of the page
ReturnPage(r) ==
    [r EXCEPT !.retries = 0, !.elapsed = 0, !.exceeded = FALSE, !.timeout = 0,
              !.attempts = 0, !.pc = "content"]

\* browser.newPage() settles: the page is open and page.goto is awaited, or
\* the call rejects, which getPage catches like any load error
NewPageDone(c) ==
    /\ crawl[c].pc = "newPage"
    /\ \E opened \in BOOLEAN :
         crawl' = [crawl EXCEPT ![c] =
                     IF opened
                     THEN [@ EXCEPT !.openPages = @ + 1, !.pc = "goto"]
                     ELSE CatchLoadError(@)]
    /\ UNCHANGED <<sites, siteIndex, promises, orchPc, clock, env, exPc, exAds, exOut, call, olx>>

\* page.goto settles after d seconds: with status 200 loadPage and getPage
\* return the page and getSiteOffers awaits its content; otherwise the catch
\* block of loadPage awaits page.close
GotoDone(c) ==
    /\ crawl[c].pc = "goto"
    /\ \E outcome \in GotoOutcomes, d \in env.gotoSecs :
         crawl' = [crawl EXCEPT ![c] =
                     IF outcome = "ok"
                     THEN ReturnPage(@)
                     ELSE [@ EXCEPT !.elapsed = Elapse(@, d), !.pc = "close"]]
    /\ UNCHANGED <<sites, siteIndex, promises, orchPc, clock, env, exPc, exAds, exOut, call, olx>>

\* page.close settles; loadPage throws and getPage catches
CloseDone(c) ==
    /\ crawl[c].pc = "close"
    /\ crawl' = [crawl EXCEPT ![c] = CatchLoadError(ClosePage(@))]
    /\ UNCHANGED <<sites, siteIndex, promises, orchPc, clock, env, exPc, exAds, exOut, call, olx>>

\* the sleep is over: the loop of getPage calls loadPage again
SleepDone(c) ==
    /\ crawl[c].pc = "sleep"
    /\ crawl' = [crawl EXCEPT ![c] =
                   [@ EXCEPT !.elapsed = Elapse(@, crawl[c].timeout),
                             !.attempts = Min(@ + 1, env.horizon + 1), !.pc = "newPage"]]
    /\ UNCHANGED <<sites, siteIndex, promises, orchPc, clock, env, exPc, exAds, exOut, call, olx>>

(***************************************************************************)
(* Scraper.getSiteOffers, Scraper.scrapeSiteOffers, Scraper.saveSiteOffers *)
(***************************************************************************)
\* scrapeSiteOffers is called: it runs up to the first await, in loadPage
StartCrawl(site) ==
    BeginGetPage([IdleCrawl EXCEPT !.site = site, !.pageUrls = <<StartUrl(site)>>],
                 StartUrl(site))

\* the promise of scrapeSiteOffers settles: the locals of the call and its
\* site scraper are gone; the open pages, what was saved and what was
\* logged stay
Settle(r, pc) ==
    [IdleCrawl EXCEPT !.pc = pc, !.site = r.site, !.openPages = r.openPages,
                      !.saved = r.saved, !.saves = r.saves,
                      !.validations = r.validations, !.warned = r.warned,
                      !.logged = r.logged]

\* the test without scrapedPagesCount === 1
NeedsNextPagesAnyPage(isDone, scrapedPagesCount) == isDone = FALSE

\* isDone === false && scrapedPagesCount === 1
NeedsNextPages(isDone, scrapedPagesCount) == isDone = FALSE /\ scrapedPagesCount = 1

\* the loop goes on while URLs are left, whatever isDone is
LoopAgainWhileUrls(isDone, pageUrls) == Len(pageUrls) > 0

\* while (isDone === false && pageUrls.length > 0)
LoopAgain(isDone, pageUrls) == isDone = FALSE /\ Len(pageUrls) > 0

\* the queue keeps the URL of the page just scraped
ShiftSkipped(pageUrls) == pageUrls

\* pageUrls.shift()
Shift(pageUrls) == Tail(pageUrls)

\* the error of a result [offers, null] of getSiteOffers
Null == "null"

\* getSiteOffers returns [offers, error] to scrapeSiteOffers, which leaves
\* `error` unread and calls saveSiteOffers with the offers: the text is
\* built from them and the write to the file is awaited
SaveSiteOffers(r, error) == [r EXCEPT !.text = r.offers, !.pc = "save"]

\* validateOffers over an `offers` array whose elements at the indexes
\* `missing` have an empty required field, with config.isDev as given, drops
\* those elements from the array
validateOffersDropIncomplete(offers, missing, isDev) ==
    LET RECURSIVE Keep(_)
        Keep(i) == IF i > Len(offers) THEN <<>>
                   ELSE (IF i \in missing THEN <<>> ELSE <<offers[i]>>) \o Keep(i + 1)
    IN  [offers |-> IF isDev THEN Keep(1) ELSE offers,
         warned |-> isDev /\ missing # {}]

\* validateOffers over an `offers` array whose elements at the indexes
\* `missing` have an empty required field, with config.isDev as given: the
\* array when it returns, and whether it logged the warning
validateOffers(offers, missing, isDev) ==
    LET withMissingData == {i \in 1..Len(offers) : i \in missing}
    IN  [offers |-> offers,
         warned |-> isDev /\ Cardinality(withMissingData) > 0]

\* the file is written: validateOffers runs over the offers and l.info logs
\* their number
AfterSave(r, missing) ==
    LET v == validateOffers(r.offers, missing, env.isDev)
    IN  [r EXCEPT !.saved = r.text, !.saves = @ + 1, !.validations = @ + 1,
                  !.warned = v.warned, !.logged = Len(v.offers)]

\* the body of the do-while loop after the page's ads are there, and the
\* loop test: another getPage, or return [offers, null] into saveSiteOffers
AfterPageAds(r, out, pagesCount) ==
    LET count == r.scrapedPagesCount + 1
        paginate == NeedsNextPages(out.isDone, count)
        urls == Shift(r.pageUrls)
                  \o (IF paginate THEN getOlxUrlsToNextPages(r.site, pagesCount) ELSE <<>>)
        r1 == [r EXCEPT !.offers = @ \o out.ads, !.isDone = out.isDone,
                        !.scrapedPagesCount = count, !.pageUrls = urls,
                        !.debugInfo = out.dbg,
                        !.paginationCalls = @ + (IF paginate THEN 1 ELSE 0)]
    IN  IF LoopAgain(out.isDone, urls)
        THEN BeginGetPage(r1, urls[1])
        ELSE SaveSiteOffers(r1, Null)

\* page.content() settles and cheerio loads it; getPageAds is awaited
ContentDone(c) ==
    /\ crawl[c].pc = "content"
    /\ crawl' = [crawl EXCEPT ![c].pc = "extract"]
    /\ UNCHANGED <<sites, siteIndex, promises, orchPc, clock, env, exPc, exAds, exOut, call, olx>>

\* getPageAds settles on the ads the page holds: an error of the extraction
\* leaves getSiteOffers and scrapeSiteOffers, whose promise rejects
ExtractDone(c) ==
    /\ crawl[c].pc = "extract"
    /\ \E ads \in env.pages, pagesCount \in env.pagerCounts :
         \E out \in {parseOlxPageAds(ads, crawl[c].debugInfo, clock)} :
            crawl' = [crawl EXCEPT ![c] =
                        IF out.threw
                        THEN Settle(@, "rejected")
                        ELSE AfterPageAds(@, out, pagesCount)]
    /\ UNCHANGED <<sites, siteIndex, promises, orchPc, clock, env, exPc, exAds, exOut, call, olx>>

\* saveSiteOffers settles: written, then validateOffers and the promise of
\* scrapeSiteOffers resolves; or the write fails, saveSiteOffers rethrows
\* and the promise rejects
SaveDone(c) ==
    /\ crawl[c].pc = "save"
    /\ \E written \in BOOLEAN, missing \in SUBSET (1..Len(crawl[c].offers)) :
         crawl' = [crawl EXCEPT ![c] =
                     IF written
                     THEN Settle(AfterSave(@, missing), "resolved")
                     ELSE Settle([@ EXCEPT !.saves = @ + 1], "rejected")]
    /\ UNCHANGED <<sites, siteIndex, promises, orchPc, clock, env, exPc, exAds, exOut, call, olx>>

CrawlNext(c) ==
    \/ NewPageDone(c)
    \/ GotoDone(c)
    \/ CloseDone(c)
    \/ SleepDone(c)
    \/ ContentDone(c)
    \/ ExtractDone(c)
    \/ SaveDone(c)

(***************************************************************************)
(* Scraper.scrapeOffers                                                    *)
(***************************************************************************)
\* scrapeAnnouncements of scraper.ts: the same pass of the loop, in which
\* siteIndex is incremented by ++siteIndex alone, so the next pass starts at
\* the second site of this one
LoopFromAnnouncements(i) ==
    IF i < Len(sites)
    THEN /\ IF i + 1 < Len(sites)
            THEN /\ crawl' = [crawl EXCEPT ![i + 1] = StartCrawl(sites[i + 1]),
                                           ![i + 2] = StartCrawl(sites[i + 2])]
                 /\ promises' = {i + 1, i + 2}
            ELSE /\ crawl' = [crawl EXCEPT ![i + 1] = StartCrawl(sites[i + 1])]
                 /\ promises' = {i + 1}
         /\ siteIndex' = i + 1
         /\ orchPc' = "await"
    ELSE /\ orchPc' = "returned"
         /\ UNCHANGED <<crawl, promises, siteIndex>>

\* the pass of the loop without its siteIndex++
LoopFromWithoutIncrement(i) == LoopFromAnnouncements(i)

\* the while test and, when it holds, one pass of the loop up to the await:
\* the crawl of sites[siteIndex] starts and, if ++siteIndex < sites.length,
\* the crawl of the next site too (positions of the model start at 1)
LoopFrom(i) ==
    IF i < Len(sites)
    THEN /\ IF i + 1 < Len(sites)
            THEN /\ crawl' = [crawl EXCEPT ![i + 1] = StartCrawl(sites[i + 1]),
                                           ![i + 2] = StartCrawl(sites[i + 2])]
                 /\ promises' = {i + 1, i + 2}
            ELSE /\ crawl' = [crawl EXCEPT ![i + 1] = StartCrawl(sites[i + 1])]
                 /\ promises' = {i + 1}
         /\ siteIndex' = i + 2
         /\ orchPc' = "await"
    ELSE /\ orchPc' = "returned"
         /\ UNCHANGED <<crawl, promises, siteIndex>>

\* the loop goes on without the await of Promise.all
NotAwaited == TRUE

\* Promise.all(promises) resolves: every promise of the batch has resolved
PromiseAllResolved == \A c \in promises : crawl[c].pc = "resolved"

\* Promise.all(promises) rejects: a promise of the batch has rejected
PromiseAllRejected == \E c \in promises : crawl[c].pc = "rejected"

\* scrapeOffers is called
ScrapeOffers ==
    /\ orchPc = "start"
    /\ LoopFrom(siteIndex)
    /\ UNCHANGED <<sites, clock, env, exPc, exAds, exOut, call, olx>>

\* the await of Promise.all returns: the loop goes on
AwaitResolved ==
    /\ orchPc = "await"
    /\ PromiseAllResolved
    /\ LoopFrom(siteIndex)
    /\ UNCHANGED <<sites, clock, env, exPc, exAds, exOut, call, olx>>

\* the await of Promise.all throws: nothing catches, scrapeOffers rejects
AwaitRejected ==
    /\ orchPc = "await"
    /\ PromiseAllRejected
    /\ orchPc' = "rejected"
    /\ UNCHANGED <<sites, siteIndex, promises, crawl, clock, env, exPc, exAds, exOut, call, olx>>

OrchNext == ScrapeOffers \/ AwaitResolved \/ AwaitRejected

\* scrapeAnnouncements of scraper.ts is called
ScrapeAnnouncements ==
    /\ orchPc = "start"
    /\ LoopFromAnnouncements(siteIndex)
    /\ UNCHANGED <<sites, clock, env, exPc, exAds, exOut, call, olx>>

\* its await of Promise.all returns: the loop goes on
AnnouncementsAwaitResolved ==
    /\ orchPc = "await"
    /\ PromiseAllResolved
    /\ LoopFromAnnouncements(siteIndex)
    /\ UNCHANGED <<sites, clock, env, exPc, exAds, exOut, call, olx>>

AnnouncementsNext == ScrapeAnnouncements \/ AnnouncementsAwaitResolved \/ AwaitRejected

(***************************************************************************)
(* parseOlxPageAds on its own                                              *)
(***************************************************************************)
ExtractPage ==
    /\ exPc = "input"
    /\ exOut' = parseOlxPageAds(exAds, [url |-> StartUrl(0), idx |-> 0], clock)
    /\ exPc' = "done"
    /\ UNCHANGED <<sites, siteIndex, promises, orchPc, crawl, clock, env, exAds, call, olx>>

NoOut == [threw |-> FALSE, ads |-> <<>>, isDone |-> FALSE, dbg |-> [url |-> StartUrl(0), idx |-> 0]]

\* no function is called on its own
NoCall == [pc |-> "off", op |-> "none"]

(***************************************************************************)
(* getOlxAnnouncements of scraper.ts.  _debugInfo is a variable of the     *)
(* module, shared by every call; `sources` keeps, beside the announcements *)
(* of a call, the URL each one was read from and its index on that page.   *)
(***************************************************************************)
\* Urls.Olx
OlxUrl == StartUrl(1)

OlxCalls == 1..MaxOlxCalls

\* a getOlxAnnouncements call that has not started
IdleOlx ==
    [pc |-> "idle", url |-> OlxUrl, first |-> TRUE, pageUrls |-> <<>>, i |-> 0,
     pageAds |-> <<>>, isDone |-> FALSE, announcements |-> <<>>, sources |-> <<>>]

\* the module is loaded: let _debugInfo = { url: String(Urls.Olx), idx: 0 }
NoOlx == [debugInfo |-> [url |-> OlxUrl, idx |-> 0], calls |-> [v \in OlxCalls |-> IdleOlx]]

\* what the Olx site serves
OlxEnv ==
    [horizon |-> RunRetries, gotoSecs |-> {0}, pages |-> {FreshPage, LastPage},
     pagerCounts |-> {0, 3}, isDev |-> FALSE]

\* the promise of getOlxAnnouncements settles: the announcements stay
OlxSettle(r, pc) ==
    [IdleOlx EXCEPT !.pc = pc, !.announcements = r.announcements, !.sources = r.sources]

\* getOlxPage(browser, url) is called and awaited
OlxLoad(r, url) == [r EXCEPT !.pc = "getOlxPage", !.url = url]

\* getOlxAnnouncements is called: it awaits getOlxPage(browser, Urls.Olx)
\* and leaves _debugInfo as it is
GetOlxAnnouncements(v) ==
    /\ olx.calls[v].pc = "idle"
    /\ olx' = [olx EXCEPT !.calls[v] = OlxLoad(@, OlxUrl)]
    /\ UNCHANGED <<sites, siteIndex, promises, orchPc, crawl, clock, env, exPc, exAds, exOut, call>>

\* getOlxPage settles.  With the page, getOlxPageAds is called and runs
\* parseOlxPageAds, which stamps the ads with the _debugInfo of the module,
\* before its promise is awaited; without, getOlxAnnouncements rejects
GetOlxPageDone(v) ==
    /\ olx.calls[v].pc = "getOlxPage"
    /\ \E loaded \in BOOLEAN, ads \in env.pages :
         \E out \in {parseOlxPageAds(ads, olx.debugInfo, clock)} :
            olx' = IF ~loaded \/ out.threw
                   THEN [olx EXCEPT !.calls[v] = OlxSettle(@, "rejected")]
                   ELSE [olx EXCEPT
                           !.debugInfo = out.dbg,
                           !.calls[v] =
                              [@ EXCEPT !.pc = "getOlxPageAds", !.pageAds = out.ads,
                                        !.isDone = out.isDone,
                                        !.sources = @ \o [k \in 1..Len(out.ads) |->
                                                            [url |-> olx.calls[v].url,
                                                             idx |-> k - 1]]]]
    /\ UNCHANGED <<sites, siteIndex, promises, orchPc, crawl, clock, env, exPc, exAds, exOut, call>>

\* the loop over pageUrls at index i (of the source): _debugInfo.url is set
\* and the page awaited, or the loop is over and the call returns
OlxLoopAt(o, v, r, i) ==
    IF i < Len(r.pageUrls)
    THEN [o EXCEPT !.debugInfo.url = r.pageUrls[i + 1],
                   !.calls[v] = OlxLoad([r EXCEPT !.i = i], r.pageUrls[i + 1])]
    ELSE [o EXCEPT !.calls[v] = OlxSettle(r, "returned")]

\* the await of getOlxPageAds returns: after the first page the call returns
\* when isDone or when there are no next pages, else the loop starts; after
\* a later page the ads are pushed and the loop breaks or goes on
GetOlxPageAdsDone(v) ==
    /\ olx.calls[v].pc = "getOlxPageAds"
    /\ \E pagesCount \in env.pagerCounts :
         LET r == olx.calls[v]
             r1 == [r EXCEPT !.announcements = @ \o r.pageAds, !.pageAds = <<>>,
                             !.first = FALSE]
         IN  olx' = IF r.isDone
                    THEN [olx EXCEPT !.calls[v] = OlxSettle(r1, "returned")]
                    ELSE IF r.first
                    THEN OlxLoopAt(olx, v,
                                   [r1 EXCEPT !.pageUrls = getOlxUrlsToNextPages(1, pagesCount)],
                                   0)
                    ELSE OlxLoopAt(olx, v, r1, r.i + 1)
    /\ UNCHANGED <<sites, siteIndex, promises, orchPc, crawl, clock, env, exPc, exAds, exOut, call>>

InitOlx ==
    /\ sites = <<>>
    /\ siteIndex = 0
    /\ promises = {}
    /\ orchPc = "off"
    /\ crawl = [c \in Crawls |-> IdleCrawl]
    /\ clock = RunClock
    /\ env = OlxEnv
    /\ exPc = "off"
    /\ exAds = <<>>
    /\ exOut = NoOut
    /\ call = NoCall
    /\ olx = NoOlx

NextOlx ==
    \E v \in OlxCalls : GetOlxAnnouncements(v) \/ GetOlxPageDone(v) \/ GetOlxPageAdsDone(v)

\* getOlxAnnouncements called up to MaxOlxCalls times in one process, the
\* calls interleaving at their awaits
SpecOlx == InitOlx /\ [][NextOlx]_vars

(***************************************************************************)
(* Specifications                                                          *)
(***************************************************************************)
\* a whole run of scrapeOffers over a list of up to MaxSites sites
Init ==
    /\ sites \in {[i \in 1..n |-> i] : n \in 0..MaxSites}
    /\ siteIndex = 0
    /\ promises = {}
    /\ orchPc = "start"
    /\ crawl = [c \in Crawls |-> IdleCrawl]
    /\ clock = RunClock
    /\ env = RunEnv
    /\ exPc = "off"
    /\ exAds = <<>>
    /\ exOut = NoOut
    /\ call = NoCall
    /\ olx = NoOlx

Next == OrchNext \/ \E c \in Crawls : CrawlNext(c)

Spec == Init /\ [][Next]_vars

\* a whole run of scrapeAnnouncements of scraper.ts, whose crawls are the
\* same as those of scrapeOffers
NextAnnouncements == AnnouncementsNext \/ \E c \in Crawls : CrawlNext(c)

SpecAnnouncements == Init /\ [][NextAnnouncements]_vars

\* every pending promise settles in the end and the event loop runs every
\* continuation that is ready
FairSpec == Spec /\ WF_vars(OrchNext) /\ \A c \in Crawls : WF_vars(CrawlNext(c))

\* one getPage call of a crawl, as scrapeOffers starts it for a single site
InitLoader ==
    /\ sites = <<1>>
    /\ siteIndex = 2
    /\ promises = {1}
    /\ orchPc = "await"
    /\ crawl = [c \in Crawls |-> IF c = 1 THEN StartCrawl(1) ELSE IdleCrawl]
    /\ clock = RunClock
    /\ env = LoaderEnv
    /\ exPc = "off"
    /\ exAds = <<>>
    /\ exOut = NoOut
    /\ call = NoCall
    /\ olx = NoOlx

\* one scrapeSiteOffers call, as scrapeOffers starts it for a single site
InitCrawl ==
    /\ sites = <<1>>
    /\ siteIndex = 2
    /\ promises = {1}
    /\ orchPc = "await"
    /\ crawl = [c \in Crawls |-> IF c = 1 THEN StartCrawl(1) ELSE IdleCrawl]
    /\ clock = RunClock
    /\ env \in {[CrawlEnv EXCEPT !.isDev = d] : d \in BOOLEAN}
    /\ exPc = "off"
    /\ exAds = <<>>
    /\ exOut = NoOut
    /\ call = NoCall
    /\ olx = NoOlx

NextCrawl == \E c \in Crawls : CrawlNext(c)

SpecCrawl == InitCrawl /\ [][NextCrawl]_vars

NextLoader == \E c \in Crawls : NewPageDone(c) \/ GotoDone(c) \/ CloseDone(c) \/ SleepDone(c)

SpecLoader == InitLoader /\ [][NextLoader]_vars

\* parseOlxPageAds over every page of up to MaxAds ads
InitExtract ==
    /\ sites = <<>>
    /\ siteIndex = 0
    /\ promises = {}
    /\ orchPc = "off"
    /\ crawl = [c \in Crawls |-> IdleCrawl]
    /\ clock \in Clocks
    /\ env = RunEnv
    /\ exPc = "input"
    /\ exAds \in SeqsUpTo(DtTexts, MaxAds)
    /\ exOut = NoOut
    /\ call = NoCall
    /\ olx = NoOlx

SpecExtract == InitExtract /\ [][ExtractPage]_vars

(***************************************************************************)
(* The functions of the Olx scraper, each called on its own                *)
(***************************************************************************)
\* the first and second tokens of the date texts handed to parseOlxAdTime
FirstTokens ==
    { dzisiaj, wczoraj, <<"5">>, <<"2", "9">>, <<"3", "1">>, <<"a", "b">>, <<"5", "x">> }

SecondTokens ==
    { <<"0", "9", ":", "1", "5">>, <<"9", "x", ":", "1", "5">>, <<"0", "9">>,
      <<"g", "r", "u">>, <<"s", "t", "y">>, <<"l", "i", "s">>, <<"x", "y", "z">>,
      <<"g", "r", "u", "d", "n", "i", "a">> }

\* the texts: empty, of one token, of two tokens (one or two spaces between
\* them), of three tokens
OlxTimes ==
    {<<>>} \cup FirstTokens
      \cup {a \o <<" ">> \o b : a \in FirstTokens, b \in SecondTokens}
      \cup {a \o <<" ", " ">> \o b : a \in {<<"a", "b">>}, b \in SecondTokens}
      \cup {a \o <<" ">> \o b \o <<" ", "c">> : a \in FirstTokens, b \in {<<"g", "r", "u">>}}

\* parseOlxAdTime(olxTime) returns or throws
NormalizeDone ==
    /\ call.pc = "input"
    /\ call.op = "parseOlxAdTime"
    /\ call' = [call EXCEPT !.pc = "done", !.out = parseOlxAdTime(call.olxTime, clock)]
    /\ UNCHANGED <<sites, siteIndex, promises, orchPc, crawl, clock, env, exPc, exAds, exOut, olx>>

\* the cut-off test of parseOlxPageAds is evaluated
StaleDone ==
    /\ call.pc = "input"
    /\ call.op = "isStale"
    /\ call' = [call EXCEPT !.pc = "done",
                            !.out = IsStale(call.ts, call.isTodayOrYesterday, NowTs(clock))]
    /\ UNCHANGED <<sites, siteIndex, promises, orchPc, crawl, clock, env, exPc, exAds, exOut, olx>>

\* the calls of parseOlxAdTime
NormalizeCalls ==
    {[pc |-> "input", op |-> "parseOlxAdTime", olxTime |-> t, out |-> StringR(<<>>)]
        : t \in OlxTimes}

\* the cut-off tests: timestamps around now - 30 s and now - 24 h - 30 s
StaleCalls(now) ==
    {[pc |-> "input", op |-> "isStale", ts |-> now - k * DAY - Padding + d,
      isTodayOrYesterday |-> f, out |-> FALSE]
        : k \in {0, 1}, d \in (0 - StaleWindow)..StaleWindow, f \in BOOLEAN}

\* getOlxUrlsToNextPages($page) returns
UrlsDone ==
    /\ call.pc = "input"
    /\ call.op = "getOlxUrlsToNextPages"
    /\ call' = [call EXCEPT !.pc = "done",
                            !.out = getOlxUrlsToNextPages(call.site, call.pagesCount)]
    /\ UNCHANGED <<sites, siteIndex, promises, orchPc, crawl, clock, env, exPc, exAds, exOut, olx>>

\* the first pages handed to getOlxUrlsToNextPages: their pagination links
UrlsCalls ==
    {[pc |-> "input", op |-> "getOlxUrlsToNextPages", site |-> site,
      pagesCount |-> n, out |-> <<>>]
        : site \in 1..MaxSites, n \in 0..(MaxPagerLinks + 1)}

InitCalls ==
    /\ sites = <<>>
    /\ siteIndex = 0
    /\ promises = {}
    /\ orchPc = "off"
    /\ crawl = [c \in Crawls |-> IdleCrawl]
    /\ clock \in Clocks
    /\ env = RunEnv
    /\ exPc = "off"
    /\ exAds = <<>>
    /\ exOut = NoOut
    /\ call \in NormalizeCalls \cup StaleCalls(NowTs(clock)) \cup UrlsCalls
    /\ olx = NoOlx

NextCalls == NormalizeDone \/ StaleDone \/ UrlsDone

SpecCalls == InitCalls /\ [][NextCalls]_vars

(***************************************************************************)
(* Properties                                                              *)
(***************************************************************************)
Settled(c) == crawl[c].pc \in {"resolved", "rejected"}

RunOver == orchPc \in {"returned", "rejected"}

InLoadLoop(c) == crawl[c].pc \in {"newPage", "goto", "close", "sleep"}

\* C1: during a run of scrapeOffers at most 2 scrapeSiteOffers calls have
\* started and not finished, at every moment.
C1_AtMostTwoActive == Cardinality({c \in Crawls : Active(c)}) <= 2

\* two crawls are running while a later site of the list waits
C1_Witness ==
    /\ Cardinality({c \in Crawls : Active(c)}) = 2
    /\ \E c \in 1..Len(sites) : crawl[c].pc = "idle"

\* C2: a crawl that fails is caught by scrapeOffers: when the run is over,
\* a failed crawl has not kept its sibling from being awaited to its end nor
\* a later site of the list from being started.
C2_FailureIsolated ==
    \A c \in Crawls :
        (crawl[c].pc = "rejected" /\ RunOver) => \A d \in 1..Len(sites) : Settled(d)

\* C3: whatever the sites do, scrapeOffers comes to an end (it returns; a
\* promise that rejects is counted as an end too), and when it has ended
\* every site of the list has had its crawl finished: none is still
\* running and none was left unstarted.
C3_RunReturnsAllSettled ==
    <>(RunOver /\ \A c \in 1..Len(sites) : Settled(c))

\* C4: once the budget test of getPage has found the elapsed time beyond
\* config.scrapeSiteTimeout, no further load attempt is made.
C4_NoAttemptAfterBudget ==
    \A c \in Crawls : crawl[c].exceeded => crawl[c].pc \notin {"newPage", "goto"}

\* C5: the k-th failed attempt of a getPage call is followed by one sleep of
\* min(k, 15) seconds, after which attempt k + 1 starts; a sleep starts only
\* after a failed attempt, never after a successful one.
C5_BackoffSchedule ==
    [][\A c \in Crawls :
         /\ (crawl[c].pc # "sleep" /\ crawl'[c].pc = "sleep")
               => /\ crawl[c].pc \in {"newPage", "close"}
                  /\ crawl'[c].attempts = crawl[c].attempts
                  /\ crawl'[c].timeout = Min(crawl[c].attempts, RetryDelayCap)
         /\ (crawl[c].pc = "sleep" /\ crawl'[c].pc # "sleep")
               => /\ crawl'[c].pc = "newPage"
                  /\ crawl'[c].attempts = Min(crawl[c].attempts + 1, env.horizon + 1)
                  /\ crawl'[c].elapsed = Elapse(crawl[c].elapsed, crawl[c].timeout)
         /\ (crawl[c].pc = "goto" /\ crawl'[c].pc = "content")
               => crawl'[c].timeout = 0
      ]_vars

\* the sleep after the 16th failed attempt: 15 seconds
C5_Witness ==
    crawl[1].pc = "sleep" /\ crawl[1].attempts = RetryDelayCap + 1 /\ crawl[1].timeout = RetryDelayCap

\* C6: a crawl calls getUrlsToNextPages at most once, only right after its
\* first page was extracted and only when that page was not the last one
\* (isDone false); a crawl whose first page gives isDone true has called
\* getPage once and getUrlsToNextPages not at all when it leaves the loop.
C6_PaginationAtMostOnce ==
    /\ [](\A c \in Crawls :
            /\ crawl[c].paginationCalls <= 1
            /\ (crawl[c].pc = "save" /\ crawl[c].scrapedPagesCount = 1 /\ crawl[c].isDone)
                  => (crawl[c].getPageCalls = 1 /\ crawl[c].paginationCalls = 0))
    /\ [][\A c \in Crawls :
            crawl'[c].paginationCalls > crawl[c].paginationCalls
              => /\ crawl[c].pc = "extract"
                 /\ crawl[c].scrapedPagesCount = 0
                 /\ crawl'[c].scrapedPagesCount = 1
                 /\ crawl'[c].isDone = FALSE
                 /\ crawl'[c].paginationCalls = 1
       ]_vars

\* the pagination was asked after the first page, and the crawl has
\* extracted a second page that was not the last one either and leaves the
\* loop for want of URLs, without asking again
C6_Witness ==
    /\ crawl[1].paginationCalls = 1
    /\ crawl[1].scrapedPagesCount = 2
    /\ crawl[1].isDone = FALSE
    /\ crawl[1].pc = "save"

\* C7: when getPage fails for a page (its budget test has found the time
\* exceeded), getSiteOffers stops at once: the next step of the crawl
\* returns the offers gathered so far, all of them, and loads nothing more.
C7_AcquireFailureReturnsRecords ==
    [][\A c \in Crawls :
         (crawl[c].exceeded /\ crawl'[c] # crawl[c])
            => (crawl'[c].pc = "save" /\ crawl'[c].offers = crawl[c].offers)
      ]_vars

\* C8: when the extraction of a page fails after offers were gathered from
\* earlier pages, getSiteOffers does not throw: the crawl goes on with a
\* result that still carries the gathered offers.
C8_ExtractionErrorKeepsRecords ==
    [][\A c \in Crawls :
         (crawl[c].pc = "extract" /\ crawl'[c].pc # "extract" /\ Len(crawl[c].offers) > 0)
            => /\ crawl'[c].pc # "rejected"
               /\ Len(crawl'[c].offers) >= Len(crawl[c].offers)
               /\ SubSeq(crawl'[c].offers, 1, Len(crawl[c].offers)) = crawl[c].offers
      ]_vars

\* C9: at the start of every load attempt, and during the sleep before it,
\* no page of a failed attempt is open: the open pages are the ones getPage
\* returned for the pages scraped so far; and the step that leaves the
\* catch block of loadPage has closed one page.
C9_FailedAttemptClosesPage ==
    /\ [](\A c \in Crawls :
            crawl[c].pc \in {"newPage", "sleep"}
               => crawl[c].openPages = crawl[c].scrapedPagesCount)
    /\ [][\A c \in Crawls :
            (crawl[c].pc = "close" /\ crawl'[c].pc # "close")
               => (crawl'[c].pc = "sleep" /\ crawl'[c].openPages = crawl[c].openPages - 1)
       ]_vars

\* the second attempt of the second page starts, after a first attempt
\* whose page.goto failed after one second and a sleep of one second
C9_Witness ==
    /\ crawl[1].pc = "newPage"
    /\ crawl[1].attempts = 2
    /\ crawl[1].elapsed = 2
    /\ crawl[1].scrapedPagesCount = 1
    /\ crawl[1].openPages = 1

\* the ad of position i parses to a date beyond the cut-off
StaleAt(ads, i, now) ==
    LET parsedDate == parseOlxAdTime(ads[i], now)
    IN  /\ parsedDate.tag = "date"
        /\ IsStale(parsedDate.ts, IsTodayOrYesterday(ads[i]), NowTs(now))

\* the position of the first stale ad, Len(ads) + 1 when there is none
FirstStale(ads, now) ==
    CHOOSE k \in 1..(Len(ads) + 1) :
        /\ k <= Len(ads) => StaleAt(ads, k, now)
        /\ \A i \in 1..(k - 1) : ~StaleAt(ads, i, now)

Tokens(olxTime) == FilterNonEmpty(Split(olxTime, " "))

\* a text of two tokens whose numeric checks fail: after dzisiaj / wczoraj a
\* time whose hour or minutes are no numbers, else a day that is no number
NumericChecksFail(olxTime) ==
    LET arr == Tokens(olxTime)
    IN  /\ Len(arr) = 2
        /\ IF arr[1] \in {dzisiaj, wczoraj}
           THEN LET timeArr == Split(arr[2], ":")
                IN  \/ Len(timeArr) < 2
                    \/ ToNumber(timeArr[1]) = NaN \/ timeArr[1] = <<>>
                    \/ ToNumber(timeArr[2]) = NaN \/ timeArr[2] = <<>>
           ELSE ToNumber(arr[1]) = NaN

\* C11: for a text of more than two tokens, of fewer than two tokens, or of
\* two tokens whose numeric checks fail, parseOlxAdTime returns the text
\* itself, unchanged: it does not throw and returns no other string.
C11_UnparsedReturnedUnchanged ==
    (/\ call.pc = "done"
     /\ call.op = "parseOlxAdTime"
     /\ Len(Tokens(call.olxTime)) # 2 \/ NumericChecksFail(call.olxTime))
        => call.out = StringR(call.olxTime)

\* C12: the cut-off test says stale exactly when the timestamp is earlier
\* than now - 30 s, and than now - 24 h - 30 s for a dzisiaj / wczoraj date;
\* a timestamp exactly at the cut-off is not stale.
C12_StaleDecision ==
    (call.pc = "done" /\ call.op = "isStale")
        => call.out = (call.ts < NowTs(clock) - Padding
                                   - (IF call.isTodayOrYesterday THEN DAY ELSE 0))

\* a dzisiaj / wczoraj date exactly 24 h 30 s old was found not stale
C12_Witness ==
    /\ call.pc = "done"
    /\ call.op = "isStale"
    /\ call.isTodayOrYesterday
    /\ call.ts = NowTs(clock) - DAY - Padding
    /\ call.out = FALSE

\* a text 'D mon': two tokens, a day that is a number and exists in the
\* month, and a month word that starts with a prefix of the switch
IsDayMonth(olxTime, year) ==
    LET arr == Tokens(olxTime)
    IN  /\ Len(arr) = 2
        /\ arr[1] \notin {dzisiaj, wczoraj, <<>>}
        /\ ToNumber(arr[1]) # NaN
        /\ ~MonthUnrecognized(Substr0(arr[2], 3))
        /\ ToNumber(arr[1]) \in
              1..DaysInMonth(year, mapMonthPrefixToMonth(Substr0(arr[2], 3)))

\* C13: a text 'D mon' gives midnight of day D of that month, in the
\* current year, or in the year before when the month is December and D is
\* after today's day of the month; for no other month the year goes back.
C13_DayMonthYear ==
    (/\ call.pc = "done"
     /\ call.op = "parseOlxAdTime"
     /\ IsDayMonth(call.olxTime, clock.year))
        => LET D == ToNumber(Tokens(call.olxTime)[1])
               month == mapMonthPrefixToMonth(Substr0(Tokens(call.olxTime)[2], 3))
               year == IF month = 11 /\ D > clock.date THEN clock.year - 1 ELSE clock.year
           IN  /\ call.out = DateR(MakeDate(year, month, D, 0, 0))
               /\ month # 11 => call.out.ts >= MakeDate(clock.year, 0, 1, 0, 0)

\* '29 gru' read on 2024-01-05 gave 2023-12-29 00:00
C13_Witness ==
    /\ call.pc = "done"
    /\ call.op = "parseOlxAdTime"
    /\ call.olxTime = <<"2", "9", " ", "g", "r", "u">>
    /\ clock.year = 2024 /\ clock.month = 0 /\ clock.date = 5
    /\ call.out.tag = "date"
    /\ call.out.ts = 1703808000

\* C14: when the first page has been extracted and the queue holds no
\* pagination URL (getUrlsToNextPages returned none), the crawl stops after
\* page 1 whatever isDone is: one getPage call, and the offers of the first
\* page are returned into the save, with no error.
C14_EmptyPaginationStops ==
    [][\A c \in Crawls :
         (/\ crawl[c].pc = "extract"
          /\ crawl[c].scrapedPagesCount = 0
          /\ crawl'[c].pc \notin {"extract", "rejected"}
          /\ \A k \in 1..Len(crawl'[c].pageUrls) : crawl'[c].pageUrls[k].page = 1)
            => /\ crawl'[c].pc = "save"
               /\ crawl'[c].scrapedPagesCount = 1
               /\ crawl'[c].getPageCalls = 1
               /\ crawl'[c].pageUrls = <<>>
      ]_vars

\* the first page was not the last one, getUrlsToNextPages was asked and
\* gave no URL, and the crawl returns the one offer of the first page
C14_Witness ==
    /\ crawl[1].pc = "save"
    /\ crawl[1].scrapedPagesCount = 1
    /\ crawl[1].isDone = FALSE
    /\ crawl[1].paginationCalls = 1
    /\ crawl[1].getPageCalls = 1
    /\ crawl[1].pageUrls = <<>>
    /\ Len(crawl[1].offers) = 1

\* C15: for a first page with pagesCount pagination links,
\* getOlxUrlsToNextPages returns the URLs of the pages 2 .. pagesCount - 1
\* in ascending order, none when pagesCount <= 2; the result depends on
\* nothing but the page.
C15_NextPagesUrls ==
    (call.pc = "done" /\ call.op = "getOlxUrlsToNextPages")
        => /\ Len(call.out) = (IF call.pagesCount <= 2 THEN 0 ELSE call.pagesCount - 2)
           /\ \A k \in 1..Len(call.out) :
                 call.out[k] = [site |-> call.site, page |-> k + 1]

\* a first page with 4 pagination links gives the URLs of pages 2 and 3
C15_Witness ==
    /\ call.pc = "done"
    /\ call.op = "getOlxUrlsToNextPages"
    /\ call.pagesCount = 4
    /\ call.out = <<[site |-> call.site, page |-> 2], [site |-> call.site, page |-> 3]>>

C17_AnnouncementsLaunchOnce ==
    [][\A c \in Crawls : Settled(c) => crawl'[c] = crawl[c]]_vars

\* the crawl is between the call of getPage and the end of the extraction
AtPage(c) == InLoadLoop(c) \/ crawl[c].pc \in {"content", "extract"}

\* C18: in a crawl the n-th page loaded is page n, the front of the queue,
\* and the queue holds the pages after it in order, so pages are loaded in
\* the order of the queue and none twice; no page is loaded once isDone is
\* true, and isDone does not go back to false; each extraction appends the
\* offers of the page just loaded, in the order of the page, to the offers
\* gathered before, so the offers are those of the pages in load order.
C18_PagesInQueueOrder ==
    /\ [](\A c \in Crawls :
            /\ AtPage(c)
                  => /\ crawl[c].url = [site |-> crawl[c].site, page |-> crawl[c].getPageCalls]
                     /\ crawl[c].getPageCalls = crawl[c].scrapedPagesCount + 1
                     /\ crawl[c].isDone = FALSE
                     /\ Len(crawl[c].pageUrls) >= 1
                     /\ \A k \in 1..Len(crawl[c].pageUrls) :
                           crawl[c].pageUrls[k] =
                              [site |-> crawl[c].site, page |-> crawl[c].getPageCalls + k - 1]
            /\ \A i \in 1..Len(crawl[c].offers), j \in 1..Len(crawl[c].offers) :
                  i < j => \/ crawl[c].offers[i]._debugInfo.url.page
                                < crawl[c].offers[j]._debugInfo.url.page
                           \/ /\ crawl[c].offers[i]._debugInfo.url = crawl[c].offers[j]._debugInfo.url
                              /\ crawl[c].offers[i]._debugInfo.idx < crawl[c].offers[j]._debugInfo.idx)
    /\ [][\A c \in Crawls :
            /\ (crawl[c].pc = "extract" /\ crawl'[c].pc \in {"newPage", "save"})
                  => /\ Len(crawl'[c].offers) >= Len(crawl[c].offers)
                     /\ SubSeq(crawl'[c].offers, 1, Len(crawl[c].offers)) = crawl[c].offers
                     /\ \A i \in (Len(crawl[c].offers) + 1)..Len(crawl'[c].offers) :
                           crawl'[c].offers[i]._debugInfo.url = crawl[c].url
                     /\ crawl'[c].pc = "save" => crawl'[c].getPageCalls = crawl[c].getPageCalls
            /\ (crawl[c].pc = "save" /\ crawl'[c].pc = "resolved")
                  => crawl'[c].saved = crawl[c].offers
       ]_vars

\* three pages were loaded, and the offers returned start with one of page
\* 1 and end with one of page 3
C18_Witness ==
    /\ crawl[1].pc = "save"
    /\ crawl[1].getPageCalls = 3
    /\ Len(crawl[1].offers) >= 3
    /\ crawl[1].offers[1]._debugInfo.url.page = 1
    /\ crawl[1].offers[Len(crawl[1].offers)]._debugInfo.url.page = 3
    /\ crawl[1].isDone

\* C19: every announcement of a getOlxAnnouncements call carries, as its
\* debug stamp, the URL of the page it was read from and its index on that
\* page, whatever calls came before and whatever calls run beside it.
C19_StampIsSource ==
    \A v \in OlxCalls :
        /\ Len(olx.calls[v].sources) = Len(olx.calls[v].announcements) + Len(olx.calls[v].pageAds)
        /\ \A k \in 1..Len(olx.calls[v].announcements) :
              olx.calls[v].announcements[k]._debugInfo = olx.calls[v].sources[k]

\* C20: at every moment of a run a crawl that is running has at most one
\* page open and a crawl that is not running has none, so that at most 2
\* pages are open: the page of a successful load is closed when the crawl
\* moves on to the next page or returns.  (Stated for the crawls that have
\* not ended in an error.)
C20_OnePagePerActiveCrawl ==
    \A c \in Crawls :
        crawl[c].pc # "rejected" => crawl[c].openPages <= (IF Active(c) THEN 1 ELSE 0)

\* C21: every crawl that returns its offers to scrapeSiteOffers is followed
\* by exactly one saveSiteOffers call, whose text holds exactly the offers
\* returned; no result of the crawl keeps the save from being called;
\* validateOffers runs only once the file is written, warns only when
\* config.isDev is set, and leaves the offers, the file and the outcome of
\* scrapeSiteOffers as they are.
C21_SaveAfterEveryReturn ==
    /\ [](\A c \in Crawls :
            /\ crawl[c].saves <= 1
            /\ crawl[c].validations <= crawl[c].saves
            /\ crawl[c].pc = "save"
                  => /\ crawl[c].text = crawl[c].offers
                     /\ crawl[c].saves = 0
            /\ crawl[c].pc = "resolved"
                  => /\ crawl[c].saves = 1
                     /\ crawl[c].validations = 1
                     /\ crawl[c].logged = Len(crawl[c].saved)
            /\ crawl[c].warned => env.isDev)
    /\ [][\A c \in Crawls :
            /\ (crawl[c].pc = "extract" /\ crawl'[c].pc \notin {"extract", "newPage", "rejected"})
                  => /\ crawl'[c].pc = "save"
                     /\ crawl'[c].text = crawl'[c].offers
            /\ (crawl[c].pc = "save" /\ crawl'[c].pc # "save")
                  => /\ crawl'[c].pc \in {"resolved", "rejected"}
                     /\ crawl'[c].saves = crawl[c].saves + 1
                     /\ crawl'[c].pc = "resolved"
                           => /\ crawl'[c].saved = crawl[c].offers
                              /\ crawl'[c].validations = crawl[c].validations + 1
                              /\ crawl'[c].logged = Len(crawl[c].offers)
                     /\ crawl'[c].pc = "rejected"
                           => /\ crawl'[c].saved = crawl[c].saved
                              /\ crawl'[c].validations = crawl[c].validations
                              /\ crawl'[c].warned = crawl[c].warned
            /\ crawl'[c].saves # crawl[c].saves => crawl[c].pc = "save"
            /\ (crawl'[c].validations # crawl[c].validations \/ crawl'[c].warned # crawl[c].warned)
                  => (crawl[c].pc = "save" /\ crawl'[c].pc = "resolved")
       ]_vars

\* a crawl returned two offers or more, they were saved in one attempt,
\* validateOffers ran after it and warned, and the promise resolved
C21_Witness ==
    /\ crawl[1].pc = "resolved"
    /\ crawl[1].saves = 1
    /\ Len(crawl[1].saved) >= 2
    /\ crawl[1].validations = 1
    /\ crawl[1].warned
    /\ crawl[1].logged = Len(crawl[1].saved)

=============================================================================
